---- MODULE Spec2Model ----
(***************************************************************************)
(* plugin-pingpal-email: init, monitorEmails with its 'exists' handler and *)
(* gracefulShutdown (src/src/index.ts), and the ANALYZE_EMAIL handler      *)
(* (src/src/actions/analyzeEmailAction.ts) as a state machine.             *)
(*                                                                         *)
(* Both handlers are async functions.  A handler invocation is at rest     *)
(* only at an await; hnd[h].pc names the call the invocation h is          *)
(* awaiting.  One action is the completion of that call (it returns or it  *)
(* throws) followed by all the synchronous code up to the next await.      *)
(***************************************************************************)
EXTENDS Integers, Sequences, FiniteSets, TLC

\* ------------------------------------------------------------------ bounds
\* Messages that arrive in the mailbox during a run.
MaxMsgs == 2
\* 'exists' handler invocations that can be pending at the same time.
MaxHandlers == 2
Handlers == 1..MaxHandlers
\* monitorEmails calls and timer callbacks that run in a session.
MaxRuns == 3
\* Shutdown signals the process receives.
MaxSignals == 1
\* Messages that arrive while the session is followed from init on.
SessionMsgs == 1
\* Fetches whose normalization is followed, and clock ticks between them.
MaxFetches == 2
MaxClock == 2
\* Notifications of one messageId after which the runtime makes no further
\* call of the ANALYZE_EMAIL handler.
MaxNotified == 2

\* ----------------------------------------------------------- environment
\* The UID the server gives the first message: UIDs equal sequence numbers
\* (1), or run ahead of them because earlier messages were expunged (2).
FirstUids == {1, 2}

\* Messages the server can deliver: envelope Message-ID, sender, and the
\* types of the child nodes of the body structure.
Templates ==
  { [messageId |-> "<abc@mail>", from |-> "alice@mail", parts |-> <<"text/plain">>],
    [messageId |-> "<abc@mail>", from |-> "bob@mail",   parts |-> <<>>],
    [messageId |-> "<def@mail>", from |-> "bob@mail",   parts |-> <<"text/html">>] }

MessageIds == { t.messageId : t \in Templates }

\* A JavaScript value as the type typeof reports and its text.
JsBool(b)   == [type |-> "boolean", val |-> b]
JsString(s) == [type |-> "string", val |-> s]
JsUndefined == [type |-> "undefined", val |-> ""]

\* What runtime.useModel can produce: it throws, it resolves to an empty
\* value, or it resolves to an object (well formed or not).
ModelResponses ==
  { [important |-> JsBool("true"), summary |-> JsString("Meeting time changed to 3pm"),
     reason_for_importance |-> JsString("schedule change")],
    [important |-> JsBool("false"), summary |-> JsString(""),
     reason_for_importance |-> JsString("")],
    [important |-> JsString("true"), summary |-> JsString("Meeting time changed to 3pm"),
     reason_for_importance |-> JsString("schedule change")],
    [important |-> JsBool("true"), summary |-> JsUndefined,
     reason_for_importance |-> JsString("schedule change")],
    [important |-> JsBool("true"), summary |-> JsString("Meeting time changed to 3pm"),
     reason_for_importance |-> JsUndefined] }

ModelOutcomes ==
  { [kind |-> "throws"], [kind |-> "empty"] } \cup
  { [kind |-> "object", response |-> r] : r \in ModelResponses }

\* The actions the plugin registers with the runtime.
RegisteredActions == { "ANALYZE_EMAIL", "SEND_EMAIL_TELEGRAM_NOTIFICATION" }

\* ------------------------------------------------------------------ state
VARIABLES
  mailbox,      \* server: the messages of the mailbox, by sequence number
  nextUid,      \* server: the UID the next message gets
  seenCount,    \* client: the message count last reported by the server
  lock,         \* the mailbox lock: 0 when free, else the handler holding it
  store,        \* runtime memories of table pingpal_email_processed (metadata)
  hnd,          \* per 'exists' handler invocation: its locals and its await
  notifyCount,  \* per messageId: SEND_EMAIL_TELEGRAM_NOTIFICATION handler calls
  notifyFailed, \* the stored messageIds whose notification handler call threw
  gateFailed,   \* the messageIds skipped on a failed getMemories, not stored since
  knownUids,    \* the UIDs that were in the mailbox at the last 'exists' event
  config,       \* the IMAP settings init reads: host, user, pass
  plugin,       \* what init has done so far
  usable,       \* imapClient.usable
  selected,     \* the mailbox is open on the current connection
  listeners,    \* the 'exists' listeners registered on imapClient
  runs,         \* monitorEmails and re-idle callback invocations, and their await
  timers,       \* pending setTimeout callbacks
  shut,         \* gracefulShutdown invocations, and their await
  actions,      \* runtime.actions: the names of the registered actions
  now,          \* the clock: what Date.now() returns
  normalized    \* the messages fetched for normalization, and their emailDetails

\* The state of the session: init, monitorEmails, gracefulShutdown.
session == <<config, plugin, usable, selected, listeners, runs, timers, shut>>

\* The normalization of fetched messages, followed on its own.
normalizer == <<now, normalized>>

vars == <<mailbox, nextUid, seenCount, lock, store, hnd, notifyCount,
          notifyFailed, gateFailed, knownUids, session, normalizer, actions>>

\* What the handlers report about their runs (read by no handler).
observed == <<notifyCount, notifyFailed, gateFailed>>

\* The server side of the mailbox.
server == <<mailbox, nextUid>>

\* Optional values are sequences of length 0 or 1.
None == <<>>
Some(x) == <<x>>

IdleHandler ==
  [ pc |-> "idle",
    uidsToFetch |-> <<>>,        \* the result of the unseen search
    i |-> 0,                     \* position of the for-of loop in uidsToFetch
    msgData |-> None,            \* fetchOne's result for the current uid
    emailDetails |-> None,
    analysisResult |-> None,
    llmErrorOccurred |-> FALSE,
    memoryToCreate |-> None,
    result |-> "none",           \* how the ANALYZE_EMAIL handler settled
    threw |-> "none",            \* the runtime call of this run that threw
    calls |-> <<>>,              \* runtime calls of the current handler run
    dupAtStart |-> FALSE,        \* the store held the messageId at handler entry
    modelOutcome |-> None,       \* what useModel produced
    created |-> FALSE,           \* createMemory resolved (the record is stored)
    notifyArgs |-> None,         \* what the notifier was called with
    knownBefore |-> {} ]         \* the UIDs the wake-up before this one found

\* The settings init reads, each undefined, empty or set.
SettingValues == {None, Some(""), Some("set")}

\* Nothing is stored or running, the mailbox is empty.
InitPipeline ==
  /\ mailbox = <<>>
  /\ nextUid \in FirstUids
  /\ seenCount \in {None, Some(0)}
  /\ lock = 0
  /\ store = <<>>
  /\ hnd = [h \in Handlers |-> IdleHandler]
  /\ notifyCount = [x \in MessageIds |-> 0]
  /\ notifyFailed = {}
  /\ gateFailed = {}
  /\ knownUids = {}
  /\ now = 0
  /\ normalized = <<>>

\* The session as the first monitorEmails call leaves it when connect and
\* mailboxOpen succeed: the 'exists' listener is registered, idle is awaited.
Init ==
  /\ InitPipeline
  /\ actions = RegisteredActions
  /\ config = [host |-> Some("set"), user |-> Some("set"), pass |-> Some("set")]
  /\ plugin = [state |-> "running", client |-> TRUE, signalHandlers |-> TRUE,
               errorLogged |-> FALSE]
  /\ usable = TRUE
  /\ selected = TRUE
  /\ listeners = 1
  /\ runs = <<[fn |-> "monitorEmails", pc |-> "idle", idle |-> "none",
              calls |-> <<>>]>>
  /\ timers = <<>>
  /\ shut = <<>>

\* ------------------------------------------- analyzeEmailAction.ts, pure
\* The records of the store whose originalEmailMessageId is x.
RecordsOf(st, x) == {k \in 1..Len(st) : st[k].originalEmailMessageId = x}

HasRecord(st, x) == RecordsOf(st, x) # {}

\* A duplicate check that compares the wrong metadata field.
IsDuplicateBySender(processedMemories, messageId) ==
  \E k \in 1..Len(processedMemories) :
    processedMemories[k].senderEmailAddress = messageId

\* processedMemories.some(m => m.metadata?.originalEmailMessageId === id)
IsDuplicate(processedMemories, messageId) ==
  \E k \in 1..Len(processedMemories) :
    processedMemories[k].originalEmailMessageId = messageId

\* A validation that checks the type of important alone.
ValidResponseImportantOnly(r) == r.important.type = "boolean"

\* The typeof checks on the parsed response.
ValidResponse(r) ==
  /\ r.important.type = "boolean"
  /\ r.summary.type = "string"
  /\ r.reason_for_importance.type = "string"

\* The try/catch around runtime.useModel: what it leaves in analysisResult
\* and llmErrorOccurred.
Classify(outcome) ==
  IF outcome.kind = "object" /\ ValidResponse(outcome.response)
  THEN [ analysisResult |->
           Some([ important |-> (outcome.response.important.val = "true"),
                  summary |-> outcome.response.summary.val,
                  reason_for_importance |-> outcome.response.reason_for_importance.val ]),
         llmErrorOccurred |-> FALSE ]
  ELSE [ analysisResult |-> None, llmErrorOccurred |-> TRUE ]

\* analysisResult && !llmErrorOccurred ? analysisResult : {the failure verdict}
AnalysisDataForLogging(analysisResult, llmErrorOccurred) ==
  IF analysisResult # None /\ ~llmErrorOccurred
  THEN [ important |-> analysisResult[1].important,
         summary |-> analysisResult[1].summary,
         reason_for_importance |-> analysisResult[1].reason_for_importance,
         error |-> None ]
  ELSE [ important |-> FALSE,
         summary |-> "",
         reason_for_importance |-> "LLM processing failed",
         error |-> Some("LLM_PROCESSING_FAILED") ]

\* A record that is always written as not notified.
NotifiedNever(analysisResult) == FALSE

\* analysisResult?.important || false
NotifiedViaTelegram(analysisResult) ==
  analysisResult # None /\ analysisResult[1].important

\* The metadata of memoryToCreate.
MemoryToCreate(details, analysisResult, llmErrorOccurred) ==
  [ originalEmailMessageId |-> details.messageId,
    senderEmailAddress |-> details.from,
    notifiedViaTelegram |-> NotifiedViaTelegram(analysisResult),
    analysisResult |-> AnalysisDataForLogging(analysisResult, llmErrorOccurred) ]

\* A notification condition that does not look at important.
ShouldNotifyAnyVerdict(analysisResult, llmErrorOccurred) ==
  ~llmErrorOccurred /\ analysisResult # None

\* !llmErrorOccurred && analysisResult && analysisResult.important
ShouldNotify(analysisResult, llmErrorOccurred) ==
  ~llmErrorOccurred /\ analysisResult # None /\ analysisResult[1].important

\* runtime.actions.find(a => a.name === "SEND_EMAIL_TELEGRAM_NOTIFICATION")
NotifierFound == "SEND_EMAIL_TELEGRAM_NOTIFICATION" \in actions

\* The final return of the handler.
HandlerReturn(llmErrorOccurred) == IF llmErrorOccurred THEN "false" ELSE "true"

\* --------------------------------------------------- index.ts, pure parts
\* search({unseen: true}, {uid: true}): no operation of the program sets the
\* seen flag, so every message of the mailbox is reported, by UID.
Search(mb) == [k \in 1..Len(mb) |-> mb[k].uid]

\* fetchOne(uid.toString(), {...}) is given no {uid: true} option: the server
\* reads the number as a sequence number.  It resolves to false when there
\* is no such message.
FetchOne(mb, uid) == IF uid \in 1..Len(mb) THEN Some(mb[uid]) ELSE None

\* bodyStructure?.childNodes?.find(part => part.type === type), as found or not
HasPart(msgData, type) ==
  /\ msgData # None
  /\ \E k \in 1..Len(msgData[1].parts) : msgData[1].parts[k] = type

\* The body part the handler downloads: text/plain, else text/html; the
\* messages of Templates carry no other text part.  None: no download.
PartToDownload(msgData) ==
  IF HasPart(msgData, "text/plain") THEN Some("text/plain")
  ELSE IF HasPart(msgData, "text/html") THEN Some("text/html")
  ELSE None

\* The resolved Message-ID (the envelope carries one in every template).
FinalMessageId(m) == m.messageId

EmailDetails(m) == [messageId |-> FinalMessageId(m), from |-> m.from]

\* ------------------------------------------------ synchronous code paths
Count(calls, op) == Cardinality({k \in 1..Len(calls) : calls[k] = op})

\* finally { lock.release() }: the handler invocation is over.
Finally(s) == IdleHandler

\* A loop that goes on with the identifier after the next one.
ForLoopSkipping(s) ==
  IF s.i + 1 < Len(s.uidsToFetch)
  THEN [IdleHandler EXCEPT !.pc = "fetchOne",
                           !.uidsToFetch = s.uidsToFetch,
                           !.i = s.i + 2]
  ELSE Finally(s)

\* for (const uid of uidsToFetch): issue fetchOne for the next identifier,
\* or leave the loop.
ForLoop(s) ==
  IF s.i < Len(s.uidsToFetch)
  THEN [IdleHandler EXCEPT !.pc = "fetchOne",
                           !.uidsToFetch = s.uidsToFetch,
                           !.i = s.i + 1]
  ELSE Finally(s)

\* The ANALYZE_EMAIL handler's promise settles: it returned true or false,
\* or it rejected.
Settle(s, r) == [s EXCEPT !.pc = "analyzeHandler", !.result = r]

\* A handler that checks only that the details are there.
HandlerNoIdCheck(s, emailDetailsInput, st) ==
  IF emailDetailsInput = None
  THEN Settle(s, "false")
  ELSE [s EXCEPT !.emailDetails = emailDetailsInput,
                 !.pc = "getMemories",
                 !.calls = <<"getMemories">>,
                 !.dupAtStart = HasRecord(st, emailDetailsInput[1].messageId)]

\* analyzeEmailAction.handler(runtime, emailDetailsInput) up to its first
\* await: if (!emailDetails || !emailDetails.messageId) return false; else
\* runtime.getMemories is called.
AnalyzeHandler(s, emailDetailsInput, st) ==
  IF emailDetailsInput = None \/ emailDetailsInput[1].messageId = ""
  THEN Settle([s EXCEPT !.emailDetails = emailDetailsInput], "false")
  ELSE [s EXCEPT !.emailDetails = emailDetailsInput,
                 !.pc = "getMemories",
                 !.calls = <<"getMemories">>,
                 !.dupAtStart = HasRecord(st, emailDetailsInput[1].messageId)]

\* emailDetails is built and analyzeAction.handler is called; the handler
\* runs up to its first await, runtime.getMemories.
StartAnalyze(s, m, st) ==
  IF "ANALYZE_EMAIL" \in actions
  THEN AnalyzeHandler(s, Some(EmailDetails(m)), st)
  ELSE ForLoop(s)

\* After the body is resolved: reading msgData.envelope.from throws a
\* TypeError when fetchOne resolved to false; the catch around the loop
\* takes it.
AfterBody(s, st) ==
  IF s.msgData = None THEN Finally(s) ELSE StartAnalyze(s, s.msgData[1], st)

AfterFetch(s, msgData, st) ==
  LET s1 == [s EXCEPT !.msgData = msgData] IN
  IF PartToDownload(msgData) # None
  THEN [s1 EXCEPT !.pc = "download"]
  ELSE AfterBody(s1, st)

\* After the duplicate check.
AfterGetMemories(s, processedMemories) ==
  IF IsDuplicate(processedMemories, s.emailDetails[1].messageId)
  THEN Settle(s, "true")
  ELSE [s EXCEPT !.pc = "useModel", !.calls = Append(@, "useModel")]

\* A handler that takes a failed query for an empty list of memories.
AfterGetMemoriesThrowsAsEmpty(s) == AfterGetMemories(s, <<>>)

\* getMemories threw: nothing in the handler catches it.
AfterGetMemoriesThrows(s) == Settle(s, "throw")

\* After the classification: memoryToCreate is built and createMemory called.
AfterUseModel(s, outcome) ==
  LET c == Classify(outcome) IN
  [s EXCEPT !.modelOutcome = Some(outcome),
            !.analysisResult = c.analysisResult,
            !.llmErrorOccurred = c.llmErrorOccurred,
            !.memoryToCreate =
               Some(MemoryToCreate(s.emailDetails[1], c.analysisResult, c.llmErrorOccurred)),
            !.pc = "createMemory",
            !.calls = Append(@, "createMemory")]

\* After the try/catch around createMemory (whether it threw makes no
\* difference to the code that follows).
AfterCreateMemory(s, ok) ==
  IF ShouldNotify(s.analysisResult, s.llmErrorOccurred) /\ NotifierFound
  THEN [s EXCEPT !.created = ok,
                 !.pc = "sendNotification",
                 !.calls = Append(@, "sendNotification"),
                 !.notifyArgs = Some([ sender |-> s.emailDetails[1].from,
                                        summary |-> s.analysisResult[1].summary ])]
  ELSE Settle([s EXCEPT !.created = ok], HandlerReturn(s.llmErrorOccurred))

\* A handler that calls the notification handler again when it threw.
AfterNotifyRetry(s, ok) ==
  IF ok THEN Settle(s, HandlerReturn(s.llmErrorOccurred))
  ELSE [s EXCEPT !.calls = Append(@, "sendNotification")]

\* After the try/catch around the notification handler.
AfterNotify(s, ok) == Settle(s, HandlerReturn(s.llmErrorOccurred))

\* ---------------------------------------------------------------- actions
\* A mailbox lock that is granted while another handler holds it.
LockNeverHeld == TRUE

\* getMailboxLock resolves only when no other handler holds the lock.
LockFree == lock = 0

\* A handler that leaves without releasing the lock.
ReleaseNever(s2, l) == l

\* finally { lock.release() }: the lock is free once the handler has left.
Release(s2, l) == IF s2.pc = "idle" THEN 0 ELSE l

\* The handler invocation h moves to s2; the lock goes with the finally.
Step(h, s2) ==
  /\ hnd' = [hnd EXCEPT ![h] = s2]
  /\ lock' = Release(s2, lock)
  /\ LET s == hnd[h] IN
     notifyCount' =
       IF s2.pc = "sendNotification"
       THEN [notifyCount EXCEPT ![s2.emailDetails[1].messageId] =
               @ + Count(s2.calls, "sendNotification") - Count(s.calls, "sendNotification")]
       ELSE notifyCount

\* A message is delivered to the mailbox (UIDs up to MaxMsgs are given out).
Arrive(t) ==
  /\ Len(mailbox) < MaxMsgs
  /\ nextUid <= MaxMsgs
  /\ mailbox' = Append(mailbox, [ uid |-> nextUid, messageId |-> t.messageId,
                                  from |-> t.from, parts |-> t.parts ])
  /\ nextUid' = nextUid + 1
  /\ UNCHANGED <<actions, normalizer, session, knownUids, seenCount, lock, store, hnd, observed>>

\* Another client deletes the message with sequence number k.  The server
\* may tell this client with an EXPUNGE response, which lowers the client's
\* message count without an 'exists' event; else the client learns the lower
\* count with the next report.
Expunge(k) ==
  /\ k \in 1..Len(mailbox)
  /\ mailbox' = [j \in 1..(Len(mailbox) - 1) |->
                   IF j < k THEN mailbox[j] ELSE mailbox[j + 1]]
  /\ \E told \in BOOLEAN :
       seenCount' = IF told /\ seenCount # None /\ seenCount[1] > 0
                    THEN Some(seenCount[1] - 1)
                    ELSE seenCount
  /\ UNCHANGED <<actions, normalizer, session, knownUids, nextUid, lock, store, hnd, observed>>

\* const previousCount = data.prevCount === null ? 0 : data.prevCount
PreviousCount(prevCount) == IF prevCount = None THEN 0 ELSE prevCount[1]

\* A guard that takes any change of the count for new mail.
NewMailOnAnyChange(count, previousCount) == count # previousCount

\* if (data.count > previousCount)
NewMail(count, previousCount) == count > previousCount

FreeSlots == {h \in Handlers : hnd[h].pc = "idle"}

\* The n lowest elements of S.
Lowest(S, n) == {h \in S : Cardinality({g \in S : g < h}) < n}

\* The server reports a changed message count: every registered 'exists'
\* listener is called and runs up to getMailboxLock.  The new invocations
\* take the lowest free slots of hnd.
ExistsEvent ==
  /\ selected
  /\ listeners > 0
  /\ Cardinality(FreeSlots) >= listeners
  /\ seenCount # Some(Len(mailbox))
  /\ LET count == Len(mailbox)
         previousCount == PreviousCount(seenCount)
         started == Lowest(FreeSlots, listeners)
     IN /\ seenCount' = Some(count)
        /\ hnd' = [h \in Handlers |->
                    IF h \in started /\ NewMail(count, previousCount)
                    THEN [IdleHandler EXCEPT !.pc = "getMailboxLock",
                                             !.knownBefore = knownUids]
                    ELSE hnd[h]]
  /\ knownUids' = {mailbox[k].uid : k \in 1..Len(mailbox)}
  /\ UNCHANGED <<actions, normalizer, session, mailbox, nextUid, lock, store, observed>>

\* getMailboxLock resolves; search is issued.
LockGranted(h) ==
  /\ hnd[h].pc = "getMailboxLock"
  /\ LockFree
  /\ lock' = h
  /\ hnd' = [hnd EXCEPT ![h].pc = "search"]
  /\ UNCHANGED <<actions, normalizer, session, knownUids, mailbox, nextUid, seenCount, store, observed>>

SearchReturns(h) ==
  /\ hnd[h].pc = "search"
  /\ \E ok \in BOOLEAN :
       Step(h, IF ok THEN ForLoop([hnd[h] EXCEPT !.uidsToFetch = Search(mailbox)])
                     ELSE Finally(hnd[h]))
  /\ UNCHANGED <<actions, normalizer, session, knownUids, mailbox, nextUid, seenCount, store, notifyFailed, gateFailed>>

FetchOneReturns(h) ==
  /\ hnd[h].pc = "fetchOne"
  /\ \E ok \in BOOLEAN :
       Step(h, IF ok THEN AfterFetch(hnd[h],
                                     FetchOne(mailbox, hnd[h].uidsToFetch[hnd[h].i]),
                                     store)
                     ELSE Finally(hnd[h]))
  /\ UNCHANGED <<actions, normalizer, session, knownUids, mailbox, nextUid, seenCount, store, notifyFailed, gateFailed>>

DownloadReturns(h) ==
  /\ hnd[h].pc = "download"
  /\ \E ok \in BOOLEAN :
       Step(h, IF ok THEN AfterBody(hnd[h], store) ELSE Finally(hnd[h]))
  /\ UNCHANGED <<actions, normalizer, session, knownUids, mailbox, nextUid, seenCount, store, notifyFailed, gateFailed>>

GetMemoriesReturns(h) ==
  /\ hnd[h].pc = "getMemories"
  /\ \E ok \in BOOLEAN :
       /\ Step(h, IF ok THEN AfterGetMemories(hnd[h], store)
                        ELSE [AfterGetMemoriesThrows(hnd[h]) EXCEPT !.threw = "getMemories"])
       /\ gateFailed' = IF ok THEN gateFailed
                        ELSE gateFailed \cup {hnd[h].emailDetails[1].messageId}
  /\ UNCHANGED <<actions, normalizer, session, knownUids, mailbox, nextUid, seenCount, store, notifyFailed>>

UseModelReturns(h) ==
  /\ hnd[h].pc = "useModel"
  /\ \E outcome \in ModelOutcomes : Step(h, AfterUseModel(hnd[h], outcome))
  /\ UNCHANGED <<actions, normalizer, session, knownUids, mailbox, nextUid, seenCount, store, notifyFailed, gateFailed>>

\* A createMemory that writes over the last record of the table.
CreateMemoryOverLast(table, memory) ==
  IF table = <<>> THEN <<memory>> ELSE [table EXCEPT ![Len(table)] = memory]

\* runtime.createMemory(memory, "pingpal_email_processed"): one more record
\* at the end of the table.
CreateMemory(table, memory) == Append(table, memory)

CreateMemoryReturns(h) ==
  /\ hnd[h].pc = "createMemory"
  /\ \E ok \in BOOLEAN :
       /\ store' = IF ok THEN CreateMemory(store, hnd[h].memoryToCreate[1]) ELSE store
       /\ Step(h, AfterCreateMemory(hnd[h], ok))
       /\ gateFailed' = IF ok THEN gateFailed \ {hnd[h].emailDetails[1].messageId}
                        ELSE gateFailed
  /\ UNCHANGED <<actions, normalizer, session, knownUids, mailbox, nextUid, seenCount, notifyFailed>>

NotifyReturns(h) ==
  /\ hnd[h].pc = "sendNotification"
  /\ \E ok \in BOOLEAN :
       /\ Step(h, AfterNotify(hnd[h], ok))
       /\ notifyFailed' =
            IF ~ok /\ HasRecord(store, hnd[h].emailDetails[1].messageId)
            THEN notifyFailed \cup {hnd[h].emailDetails[1].messageId}
            ELSE notifyFailed
  /\ UNCHANGED <<actions, normalizer, session, knownUids, mailbox, nextUid, seenCount, store, gateFailed>>

\* index.ts resumes after await analyzeAction.handler(...): a rejection is
\* caught and logged, and the loop goes on.
AnalyzeSettled(h) ==
  /\ hnd[h].pc = "analyzeHandler"
  /\ Step(h, ForLoop(hnd[h]))
  /\ UNCHANGED <<actions, normalizer, session, knownUids, mailbox, nextUid, seenCount, store, notifyFailed, gateFailed>>

Next ==
  \/ \E t \in Templates : Arrive(t)
  \/ \E k \in 1..MaxMsgs : Expunge(k)
  \/ ExistsEvent
  \/ \E h \in Handlers :
       \/ LockGranted(h)
       \/ SearchReturns(h)
       \/ FetchOneReturns(h)
       \/ DownloadReturns(h)
       \/ GetMemoriesReturns(h)
       \/ UseModelReturns(h)
       \/ CreateMemoryReturns(h)
       \/ NotifyReturns(h)
       \/ AnalyzeSettled(h)

Spec == Init /\ [][Next]_vars

\* ------------------------------------------- index.ts: init and the session
\* The setTimeout delays, in milliseconds.
ReIdleDelay == 10000
ReconnectDelay == 30000
RetryDelay == 60000

\* !x for a setting: undefined or the empty string.
Falsy(v) == v = None \/ v = Some("")

\* A check that looks at the host alone.
MissingHostOnly(c) == Falsy(c.host)

\* if (!host || !user || !pass)
MissingSettings(c) == Falsy(c.host) \/ Falsy(c.user) \/ Falsy(c.pass)

\* init has not been called yet.
SessionInit ==
  /\ InitPipeline
  /\ actions = RegisteredActions
  /\ config \in [host : SettingValues, user : SettingValues, pass : SettingValues]
  /\ plugin = [state |-> "loaded", client |-> FALSE, signalHandlers |-> FALSE,
               errorLogged |-> FALSE]
  /\ usable = FALSE
  /\ selected = FALSE
  /\ listeners = 0
  /\ runs = <<>>
  /\ timers = <<>>
  /\ shut = <<>>

pipeline == <<mailbox, nextUid, seenCount, lock, store, hnd, observed, knownUids>>

\* A timer whose delay grows with the number of runs so far.
TimerBackoff(fn, delay) == [fn |-> fn, delay |-> delay * (Len(runs) + 1)]

\* setTimeout(fn, delay)
Timer(fn, delay) == [fn |-> fn, delay |-> delay]

\* monitorEmails is called and runs up to its first await.
StartMonitor(u) ==
  [fn |-> "monitorEmails", pc |-> IF ~u THEN "connect" ELSE "mailboxOpen",
   idle |-> "none", calls |-> <<>>]

\* A callback that calls idle whatever the state of the client.
StartReIdleAlways(u) ==
  [fn |-> "reIdle", pc |-> "idle", idle |-> "none", calls |-> <<>>]

\* The callback of the 10 s timer: if (imapClient.usable) await idle().
StartReIdle(u) ==
  [fn |-> "reIdle", pc |-> IF u THEN "idle" ELSE "done", idle |-> "none",
   calls |-> <<>>]

\* init: the settings are read; without them an error is logged and init
\* returns; else the client is created, monitorEmails is called and the
\* signal handlers are registered.
PluginInit ==
  /\ plugin.state = "loaded"
  /\ IF MissingSettings(config)
     THEN /\ plugin' = [plugin EXCEPT !.state = "refused", !.errorLogged = TRUE]
          /\ UNCHANGED runs
     ELSE /\ plugin' = [plugin EXCEPT !.state = "running", !.client = TRUE,
                                      !.signalHandlers = TRUE]
          /\ runs' = <<StartMonitor(usable)>>
  /\ UNCHANGED <<actions, normalizer, config, usable, selected, listeners, timers, shut, pipeline>>

\* The catch of monitorEmails: logout when the client is usable, else close,
\* then the 60 s timer.  calls lists the teardown calls of the run.
Catch(r) ==
  IF usable
  THEN /\ runs' = [runs EXCEPT ![r].pc = "logout", ![r].calls = <<"logout">>]
       /\ UNCHANGED <<usable, selected, timers>>
  ELSE /\ runs' = [runs EXCEPT ![r].pc = "done", ![r].calls = <<"close">>]
       /\ usable' = FALSE
       /\ selected' = FALSE
       /\ timers' = Append(timers, Timer("monitorEmails", RetryDelay))

ConnectReturns(r) ==
  /\ r \in 1..Len(runs)
  /\ runs[r].pc = "connect"
  /\ \E ok \in BOOLEAN :
       IF ok
       THEN /\ usable' = TRUE
            /\ runs' = [runs EXCEPT ![r].pc = "mailboxOpen"]
            /\ UNCHANGED <<selected, timers>>
       ELSE Catch(r)
  /\ UNCHANGED <<actions, normalizer, config, plugin, listeners, shut, pipeline>>

\* mailboxOpen resolves only on a usable connection; then the 'exists'
\* listener is registered and idle is called.  The client takes the message
\* count of the mailbox from the answer to the selection, before the
\* listener of this run is registered: the messages that are there already
\* are not reported by an 'exists' event.
MailboxOpenReturns(r) ==
  /\ r \in 1..Len(runs)
  /\ runs[r].pc = "mailboxOpen"
  /\ \E ok \in {b \in BOOLEAN : b => usable} :
       IF ok
       THEN /\ selected' = TRUE
            /\ listeners' = listeners + 1
            /\ runs' = [runs EXCEPT ![r].pc = "idle"]
            /\ seenCount' = Some(Len(mailbox))
            /\ UNCHANGED <<usable, timers>>
       ELSE Catch(r) /\ UNCHANGED <<listeners, seenCount>>
  /\ UNCHANGED <<actions, normalizer, config, plugin, shut, mailbox, nextUid, lock, store, hnd,
                 observed, knownUids>>

\* The timer set when idle rejects: monitorEmails after 30 s when the client
\* is not usable, else the re-idle callback after 10 s; the re-idle callback
\* sets the 30 s timer.
AfterIdleRejects(fn, u) ==
  IF fn = "monitorEmails" /\ u
  THEN Timer("reIdle", ReIdleDelay)
  ELSE Timer("monitorEmails", ReconnectDelay)

\* await imapClient.idle() settles, in monitorEmails or in the re-idle
\* callback: when it resolves the function returns.
IdleReturns(r) ==
  /\ r \in 1..Len(runs)
  /\ runs[r].pc = "idle"
  /\ \E resolved \in BOOLEAN :
       IF resolved
       THEN /\ runs' = [runs EXCEPT ![r].pc = "done", ![r].idle = "resolved"]
            /\ UNCHANGED timers
       ELSE /\ runs' = [runs EXCEPT ![r].pc = "done", ![r].idle = "rejected"]
            /\ timers' = Append(timers, AfterIdleRejects(runs[r].fn, usable))
  /\ UNCHANGED <<actions, normalizer, config, plugin, usable, selected, listeners, shut, pipeline>>

\* The logout in the catch of monitorEmails settles (close() when it
\* threw); then the 60 s timer is set.
CatchLogoutReturns(r) ==
  /\ r \in 1..Len(runs)
  /\ runs[r].pc = "logout"
  /\ \E ok \in BOOLEAN :
       runs' = [runs EXCEPT ![r].pc = "done",
                            ![r].calls = IF ok THEN @ ELSE Append(@, "close")]
  /\ usable' = FALSE
  /\ selected' = FALSE
  /\ timers' = Append(timers, Timer("monitorEmails", RetryDelay))
  /\ UNCHANGED <<actions, normalizer, config, plugin, listeners, shut, pipeline>>

\* A timer that stays set when it fires.
WithoutTimerKept(k) == timers

\* timers without its k-th element.
WithoutTimer(k) ==
  [j \in 1..(Len(timers) - 1) |-> IF j < k THEN timers[j] ELSE timers[j + 1]]

\* A timer fires: monitorEmails or the re-idle callback is called.
TimerFires(k) ==
  /\ k \in 1..Len(timers)
  /\ Len(runs) < MaxRuns
  /\ timers' = WithoutTimer(k)
  /\ runs' = Append(runs, IF timers[k].fn = "monitorEmails"
                          THEN StartMonitor(usable)
                          ELSE StartReIdle(usable))
  /\ UNCHANGED <<actions, normalizer, config, plugin, usable, selected, listeners, shut, pipeline>>

\* The connection to the server drops.
ConnectionLost ==
  /\ usable
  /\ usable' = FALSE
  /\ selected' = FALSE
  /\ UNCHANGED <<actions, normalizer, config, plugin, listeners, runs, timers, shut, pipeline>>

\* gracefulShutdown up to its await: logout when the client is usable, else
\* close().
StartShutdown(u) ==
  IF u THEN [pc |-> "logout", calls |-> <<"logout">>, threw |-> FALSE]
       ELSE [pc |-> "done", calls |-> <<"close">>, threw |-> FALSE]

\* A shutdown that does not close the transport when logout threw.
AfterLogoutNoClose(sh, ok) == [sh EXCEPT !.pc = "done"]

\* gracefulShutdown after await imapClient.logout(): close() in the catch.
AfterLogout(sh, ok) ==
  [sh EXCEPT !.pc = "done", !.calls = IF ok THEN @ ELSE Append(@, "close")]

\* SIGINT or SIGTERM: gracefulShutdown is called.
Signal ==
  /\ plugin.signalHandlers
  /\ Len(shut) < MaxSignals
  /\ shut' = Append(shut, StartShutdown(usable))
  /\ UNCHANGED <<actions, normalizer, config, plugin, usable, selected, listeners, runs, timers, pipeline>>

\* The logout of gracefulShutdown settles.  A logout that resolved, and
\* close(), leave the client not usable.
ShutdownLogoutReturns(j) ==
  /\ j \in 1..Len(shut)
  /\ shut[j].pc = "logout"
  /\ \E ok \in BOOLEAN :
       LET sh == AfterLogout(shut[j], ok) IN
       /\ shut' = [shut EXCEPT ![j] = [sh EXCEPT !.threw = ~ok]]
       /\ usable' = IF ok \/ sh.calls # shut[j].calls THEN FALSE ELSE usable
       /\ selected' = IF ok \/ sh.calls # shut[j].calls THEN FALSE ELSE selected
  /\ UNCHANGED <<actions, normalizer, config, plugin, listeners, runs, timers, pipeline>>

\* A message arrives while the session is followed from init on.
SessionArrive(t) == Len(mailbox) < SessionMsgs /\ Arrive(t)

SessionNext ==
  \/ PluginInit
  \/ \E r \in 1..MaxRuns :
       \/ ConnectReturns(r)
       \/ MailboxOpenReturns(r)
       \/ IdleReturns(r)
       \/ CatchLogoutReturns(r)
  \/ \E k \in 1..MaxRuns : TimerFires(k)
  \/ ConnectionLost
  \/ Signal
  \/ \E j \in 1..MaxSignals : ShutdownLogoutReturns(j)
  \/ \E t \in Templates : SessionArrive(t)
  \/ ExistsEvent
  \/ \E h \in Handlers :
       \/ LockGranted(h)
       \/ SearchReturns(h)
       \/ FetchOneReturns(h)
       \/ DownloadReturns(h)
       \/ GetMemoriesReturns(h)
       \/ UseModelReturns(h)
       \/ CreateMemoryReturns(h)
       \/ NotifyReturns(h)
       \/ AnalyzeSettled(h)

SessionSpec == SessionInit /\ [][SessionNext]_vars

\* ------------------------------------ index.ts: message normalization
\* Strings are sequences of characters; a word that needs no look inside
\* (a header name, an address part) stands for its characters as one element.
Whitespace == {" ", "\t"}

RECURSIVE TrimStart(_)
TrimStart(str) ==
  IF str # <<>> /\ Head(str) \in Whitespace THEN TrimStart(Tail(str)) ELSE str

RECURSIVE TrimEnd(_)
TrimEnd(str) ==
  IF str # <<>> /\ str[Len(str)] \in Whitespace
  THEN TrimEnd(SubSeq(str, 1, Len(str) - 1))
  ELSE str

\* String.prototype.trim
Trim(str) == TrimEnd(TrimStart(str))

DigitChar == <<"0", "1", "2", "3", "4", "5", "6", "7", "8", "9">>

\* The decimal text of a number, as a template literal writes it.
RECURSIVE NumberToString(_)
NumberToString(n) ==
  IF n < 10 THEN <<DigitChar[n + 1]>>
  ELSE NumberToString(n \div 10) \o <<DigitChar[(n % 10) + 1]>>

\* Two decimal places, zero padded.
Pad2(n) == <<DigitChar[(n \div 10) + 1], DigitChar[(n % 10) + 1]>>

\* Date.prototype.toISOString for a date at midnight UTC.
ToISOString(date) ==
  NumberToString(date.year) \o <<"-">> \o Pad2(date.month) \o <<"-">>
    \o Pad2(date.day) \o <<"T", "00:00:00.000Z">>

\* The lower-case form of the header names of HeaderNames.
LowerCase(name) ==
  CASE name = "Message-ID" -> "message-id"
    [] name = "MESSAGE-ID" -> "message-id"
    [] name = "message-id" -> "message-id"
    [] name = "X-Message-ID" -> "x-message-id"
    [] name = "Subject" -> "subject"

\* The text of a header line: its name, the colon and what follows it.
LineText(line) == <<line.name, ":">> \o line.value

\* /^Message-ID:\s*([^\r\n]+)/im on the header block, then match[1].trim().
\* The first line that begins with Message-ID: (in any case) is taken;
\* \s* runs over blanks and line ends, so the capture is the rest of the
\* first line, from there on, that holds more than blanks.  Without such a
\* line the capture is a blank (trimmed to the empty string) or there is no
\* match: None stands for both, the code treats them alike.
HeaderMessageId(lines) ==
  LET hits == {k \in 1..Len(lines) : LowerCase(lines[k].name) = "message-id"} IN
  IF hits = {} THEN None
  ELSE LET k == CHOOSE x \in hits : \A y \in hits : x <= y
           segment(j) == IF j = k THEN lines[k].value ELSE LineText(lines[j])
           full == {j \in k..Len(lines) : Trim(segment(j)) # <<>>}
       IN IF full = {} THEN None
          ELSE Some(Trim(segment(CHOOSE x \in full : \A y \in full : x <= y)))

\* messageIdFromRawHeaders: parsed only when msgData.headers is a Buffer.
MessageIdFromRawHeaders(headers) ==
  IF headers # None /\ headers[1].kind = "buffer"
  THEN HeaderMessageId(headers[1].lines)
  ELSE None

\* A fallback id that leaves the UID out.
FallbackIdNoUid(uid, date, clock) ==
  <<"pingpal-no-id-">> \o
    (IF date # None THEN ToISOString(date[1]) ELSE NumberToString(clock))

\* `pingpal-no-id-${uid}-${msgData.envelope?.date?.toISOString() || Date.now()}`
FallbackId(uid, date, clock) ==
  <<"pingpal-no-id-">> \o NumberToString(uid) \o <<"-">> \o
    (IF date # None THEN ToISOString(date[1]) ELSE NumberToString(clock))

\* A resolution that looks at the headers before the envelope.
ResolveMessageIdHeadersFirst(msg, clock) ==
  LET fromHeaders == MessageIdFromRawHeaders(msg.headers) IN
  IF fromHeaders # None THEN fromHeaders[1]
  ELSE IF msg.envelope.messageId # None /\ Trim(msg.envelope.messageId[1]) # <<>>
       THEN Trim(msg.envelope.messageId[1])
       ELSE FallbackId(msg.uid, msg.envelope.date, clock)

\* finalMessageId: the envelope id, else the id of the raw headers, else the
\* fallback id.
ResolveMessageId(msg, clock) ==
  LET messageIdFromEnvelope == msg.envelope.messageId IN
  IF messageIdFromEnvelope # None /\ Trim(messageIdFromEnvelope[1]) # <<>>
  THEN Trim(messageIdFromEnvelope[1])
  ELSE LET messageIdFromRawHeaders == MessageIdFromRawHeaders(msg.headers) IN
       IF messageIdFromRawHeaders # None /\ Trim(messageIdFromRawHeaders[1]) # <<>>
       THEN Trim(messageIdFromRawHeaders[1])
       ELSE FallbackId(msg.uid, msg.envelope.date, clock)

\* A MIME type is its two halves; a body structure node is its type, its
\* part number if it has one, its child nodes if it has any (both optional),
\* and the decoded content the server sends for it.
Plain == [major |-> "text", minor |-> "plain"]
Html == [major |-> "text", minor |-> "html"]

\* childNodes?.find(pred): the first child the predicate holds for.
Find(childNodes, Pred(_)) ==
  LET hits == {k \in 1..Len(childNodes) : Pred(childNodes[k])} IN
  IF hits = {} THEN None
  ELSE Some(childNodes[CHOOSE x \in hits : \A y \in hits : x <= y])

\* The markup of the HTML contents of Contents.
HtmlTags == {"<p>", "</p>", "<br>", "<img src=x>", "<hr>"}

\* htmlToText: the text of the document without its markup.
RECURSIVE HtmlToText(_)
HtmlToText(html) ==
  IF html = <<>> THEN <<>>
  ELSE IF Head(html) \in HtmlTags THEN HtmlToText(Tail(html))
       ELSE <<Head(html)>> \o HtmlToText(Tail(html))

\* streamToString(download(uid, part).content)
Download(node) == node.content

\* bodyText: the text/plain child, else the text/html child converted to
\* text, else the first text/* child, else the empty string.
ResolveBody(bodyStructure) ==
  LET childNodes == IF bodyStructure.childNodes = None THEN <<>>
                    ELSE bodyStructure.childNodes[1]
      textPartInfo == Find(childNodes, LAMBDA part : part.type = Plain)
      htmlPartInfo == Find(childNodes, LAMBDA part : part.type = Html)
      firstTextPart == Find(childNodes, LAMBDA part : part.type.major = "text")
  IN IF textPartInfo # None /\ textPartInfo[1].part # None
     THEN Download(textPartInfo[1])
     ELSE IF htmlPartInfo # None /\ htmlPartInfo[1].part # None
          THEN HtmlToText(Download(htmlPartInfo[1]))
          ELSE IF firstTextPart # None /\ firstTextPart[1].part # None
               THEN Download(firstTextPart[1])
               ELSE <<>>

\* x is undefined or the empty string.
Blank(x) == x = None \/ x = Some("")

\* An address resolution without the display name.
ResolveAddressNoName(addr, unknown) ==
  IF ~Blank(addr.mailbox) /\ ~Blank(addr.host)
  THEN <<addr.mailbox[1], "@", addr.host[1]>>
  ELSE <<unknown>>

\* mailbox && host ? `${mailbox}@${host}` : name || unknown
ResolveAddress(addr, unknown) ==
  IF ~Blank(addr.mailbox) /\ ~Blank(addr.host)
  THEN <<addr.mailbox[1], "@", addr.host[1]>>
  ELSE IF ~Blank(addr.name) THEN <<addr.name[1]>> ELSE <<unknown>>

\* An address without its parts, as from?.[0] of a missing or empty list.
NoAddress == [mailbox |-> None, host |-> None, name |-> None]

\* from: the first address of envelope.from.
ResolveFrom(envelope) ==
  ResolveAddress(IF envelope.from = None \/ envelope.from[1] = <<>>
                 THEN NoAddress
                 ELSE envelope.from[1][1],
                 "Unknown Sender")

\* to: envelope.to?.map(...) || []
ResolveTo(envelope) ==
  IF envelope.to = None THEN <<>>
  ELSE [k \in 1..Len(envelope.to[1]) |->
          ResolveAddress(envelope.to[1][k], "Unknown Recipient")]

\* subject: envelope.subject || "No Subject"
ResolveSubject(envelope) ==
  IF Blank(envelope.subject) THEN "No Subject" ELSE envelope.subject[1]

\* The emailDetails the 'exists' handler builds from a fetched message.
NormalizedDetails(msg, clock) ==
  [ messageId |-> ResolveMessageId(msg, clock),
    from |-> ResolveFrom(msg.envelope),
    to |-> ResolveTo(msg.envelope),
    subject |-> ResolveSubject(msg.envelope),
    bodyText |-> ResolveBody(msg.bodyStructure) ]

\* ------------------------------------------ the messages the server sends
EnvelopeIds ==
  { None, Some(<<>>), Some(<<" ", "\t">>), Some(<<"<env@mail>">>),
    Some(<<" ", "<env@mail>", "\t">>) }

HeaderLines ==
  { <<[name |-> "Subject", value |-> <<" ", "hi">>]>>,
    <<[name |-> "Subject", value |-> <<" ", "hi">>],
      [name |-> "Message-ID", value |-> <<" ", "<hdr@mail>">>]>>,
    <<[name |-> "message-id", value |-> <<"\t", "<hdr@mail>", " ">>]>>,
    <<[name |-> "MESSAGE-ID", value |-> <<" ">>],
      [name |-> "Subject", value |-> <<" ", "hi">>]>>,
    <<[name |-> "Message-ID", value |-> <<" ", " ">>]>>,
    <<[name |-> "Message-ID", value |-> <<>>]>>,
    <<[name |-> "X-Message-ID", value |-> <<" ", "<x@mail>">>]>> }

\* msgData.headers: undefined, not a Buffer, or a Buffer with header lines.
HeaderBlocks ==
  { None, Some([kind |-> "object", lines |-> <<>>]) } \cup
  { Some([kind |-> "buffer", lines |-> l]) : l \in HeaderLines }

EnvelopeDates == { None, Some([year |-> 2024, month |-> 1, day |-> 5]) }

Uids == {5, 56}

Leaf(type, part, content) ==
  [type |-> type, part |-> Some(part), childNodes |-> None, content |-> content]

Multipart(minor, part, childNodes) ==
  [type |-> [major |-> "multipart", minor |-> minor], part |-> part,
   childNodes |-> Some(childNodes), content |-> <<>>]

PlainLeaf(part) == Leaf(Plain, part, <<"Hello", " ", "team">>)
HtmlLeaf(part) == Leaf(Html, part, <<"<p>", "Hello", "<br>", "html", "</p>">>)
CalendarLeaf(part) ==
  Leaf([major |-> "text", minor |-> "calendar"], part, <<"BEGIN:VCALENDAR">>)
PdfLeaf(part) == Leaf([major |-> "application", minor |-> "pdf"], part, <<"%PDF">>)

\* Body structures: a single-part message, multipart/alternative in both
\* orders, an alternative nested in multipart/mixed, and messages with
\* other parts.
BodyStructures ==
  { [type |-> Plain, part |-> None, childNodes |-> None,
     content |-> <<"Hello", " ", "team">>],
    Multipart("alternative", None, <<PlainLeaf("1"), HtmlLeaf("2")>>),
    Multipart("alternative", None, <<HtmlLeaf("1"), PlainLeaf("2")>>),
    Multipart("mixed", None,
              << Multipart("alternative", Some("1"),
                           <<PlainLeaf("1.1"), HtmlLeaf("1.2")>>),
                 PdfLeaf("2") >>),
    Multipart("mixed", None, <<HtmlLeaf("1"), PdfLeaf("2")>>),
    Multipart("mixed", None, <<PdfLeaf("1"), CalendarLeaf("2")>>),
    Multipart("mixed", None, <<CalendarLeaf("1"), HtmlLeaf("2")>>),
    Multipart("mixed", None, <<PdfLeaf("1")>>) }

Address(box, host, name) == [mailbox |-> box, host |-> host, name |-> name]

Addresses ==
  { Address(Some("alice"), Some("mail.com"), Some("Alice")),
    Address(Some("alice"), None, Some("Alice")),
    Address(Some(""), Some("mail.com"), Some("")),
    Address(Some("bob"), Some("mail.com"), None),
    NoAddress }

FromLists ==
  { None, Some(<<>>),
    Some(<<Address(Some("alice"), None, Some("Alice")),
           Address(Some("bob"), Some("mail.com"), None)>>) } \cup
  { Some(<<a>>) : a \in Addresses }

ToLists ==
  { None, Some(<<>>),
    Some(<<Address(Some("bob"), Some("mail.com"), None)>>),
    Some(<<Address(Some("alice"), None, Some("Alice")), NoAddress,
           Address(Some("alice"), Some("mail.com"), Some("Alice"))>>) }

Subjects == { None, Some(""), Some("Meeting") }

Message(uid, messageId, date, headers, from, to, subject, bodyStructure) ==
  [ uid |-> uid,
    envelope |-> [messageId |-> messageId, date |-> date, from |-> from,
                  to |-> to, subject |-> subject],
    headers |-> headers,
    bodyStructure |-> bodyStructure ]

\* The messages a fetch can return: every way to carry (or not carry) a
\* Message-ID, every body structure, every set of addresses, each varied
\* with the rest of the message fixed.
Messages ==
  LET from == Some(<<Address(Some("alice"), Some("mail.com"), Some("Alice"))>>)
      to == Some(<<Address(Some("bob"), Some("mail.com"), None)>>)
      body == Multipart("alternative", None, <<PlainLeaf("1"), HtmlLeaf("2")>>)
  IN { Message(u, id, d, h, from, to, Some("Meeting"), body) :
         u \in Uids, id \in EnvelopeIds, d \in EnvelopeDates, h \in HeaderBlocks }
     \cup
     { Message(5, Some(<<"<env@mail>">>), None, None, from, to, Some("Meeting"), b) :
         b \in BodyStructures }
     \cup
     { Message(5, Some(<<"<env@mail>">>), None, None, f, t, sub, body) :
         f \in FromLists, t \in ToLists, sub \in Subjects }

\* Nothing is fetched yet; the session is connected and waiting.
NormalizeInit ==
  /\ Init
  /\ nextUid = 1
  /\ seenCount = None

\* Time passes.
Tick ==
  /\ now < MaxClock
  /\ now' = now + 1
  /\ UNCHANGED <<actions, normalized, pipeline, session>>

\* fetchOne returns a message and the handler builds emailDetails from it:
\* the message fetched before, delivered again, or a message with another UID.
Normalize(msg) ==
  /\ Len(normalized) < MaxFetches
  /\ \A k \in 1..Len(normalized) :
       normalized[k].msg = msg \/ normalized[k].msg.uid # msg.uid
  /\ normalized' = Append(normalized,
                          [msg |-> msg, details |-> NormalizedDetails(msg, now)])
  /\ UNCHANGED <<actions, now, pipeline, session>>

NormalizeNext ==
  \/ Tick
  \/ \E msg \in Messages : Normalize(msg)

NormalizeSpec == NormalizeInit /\ [][NormalizeNext]_vars

\* ------------------------------------- the ANALYZE_EMAIL handler, called
\* The handler is an action of the runtime: handler(runtime, emailDetailsInput)
\* is followed here for any input and any runtime, one call after the other.

\* What runtime.actions can hold: the actions of the plugin, or ANALYZE_EMAIL
\* without the notification action.
RuntimeActions == { RegisteredActions, {"ANALYZE_EMAIL"} }

\* emailDetailsInput: undefined, details without a messageId (undefined or
\* the empty string, both falsy), or the details of a message.
EmailDetailsInputs ==
  { None, Some([messageId |-> "", from |-> "alice@mail"]) }
    \cup { Some(EmailDetails(t)) : t \in Templates }

\* The plugin is loaded, init has not run; the store is empty.
HandlerInit ==
  /\ InitPipeline
  /\ nextUid = 1
  /\ seenCount = None
  /\ actions \in RuntimeActions
  /\ config = [host |-> Some("set"), user |-> Some("set"), pass |-> Some("set")]
  /\ plugin = [state |-> "loaded", client |-> FALSE, signalHandlers |-> FALSE,
               errorLogged |-> FALSE]
  /\ usable = FALSE
  /\ selected = FALSE
  /\ listeners = 0
  /\ runs = <<>>
  /\ timers = <<>>
  /\ shut = <<>>

\* The runtime calls the handler; it runs up to its first await or returns.
HandlerCalled(emailDetailsInput) ==
  /\ hnd[1].pc = "idle"
  /\ \A x \in MessageIds : notifyCount[x] < MaxNotified
  /\ Step(1, AnalyzeHandler(IdleHandler, emailDetailsInput, store))
  /\ UNCHANGED <<actions, normalizer, session, knownUids, mailbox, nextUid, seenCount, store, notifyFailed, gateFailed>>

\* The caller takes the result; the call is over.
CallerResumes ==
  /\ hnd[1].pc = "analyzeHandler"
  /\ Step(1, IdleHandler)
  /\ UNCHANGED <<actions, normalizer, session, knownUids, mailbox, nextUid, seenCount, store, notifyFailed, gateFailed>>

HandlerNext ==
  \/ \E emailDetailsInput \in EmailDetailsInputs : HandlerCalled(emailDetailsInput)
  \/ CallerResumes
  \/ \E h \in Handlers :
       \/ GetMemoriesReturns(h)
       \/ UseModelReturns(h)
       \/ CreateMemoryReturns(h)
       \/ NotifyReturns(h)

HandlerSpec == HandlerInit /\ [][HandlerNext]_vars

\* ----------------------------------------------------------------- claims
CurrentId(h) == hnd[h].emailDetails[1].messageId

\* The ANALYZE_EMAIL handler run of invocation h has settled.
Settled(h) == hnd[h].pc = "analyzeHandler"

\* The run passed the duplicate check (the classifier was called).
Admitted(h) == Count(hnd[h].calls, "useModel") > 0

NoProcessing(h) ==
  /\ Count(hnd[h].calls, "useModel") = 0
  /\ Count(hnd[h].calls, "createMemory") = 0
  /\ Count(hnd[h].calls, "sendNotification") = 0

\* C1: for every messageId X the notification handler is called at most
\* once for messages whose resolved id is X, whatever fails.
C1_AtMostOneNotification == \A x \in MessageIds : notifyCount[x] <= 1

\* C2 as stated: a handler run for a messageId the store already holds makes
\* no useModel, notifier or createMemory call and returns true.
C2_DuplicateReturnsTrue ==
  \A h \in Handlers :
    (Settled(h) /\ hnd[h].dupAtStart) => (NoProcessing(h) /\ hnd[h].result = "true")

\* C2 amended: a handler run for a messageId the store already holds makes no
\* useModel, notifier or createMemory call; it returns true when getMemories
\* resolves, and it rejects when getMemories throws.
C2_DuplicateIsNoOp ==
  \A h \in Handlers :
    (Settled(h) /\ hnd[h].dupAtStart) =>
      /\ NoProcessing(h)
      /\ hnd[h].result = (IF hnd[h].threw = "getMemories" THEN "throw" ELSE "true")

C2_Witness ==
  \E h \in Handlers : Settled(h) /\ hnd[h].dupAtStart /\ hnd[h].result = "true"

\* C3: the store never holds two records with the same originalEmailMessageId,
\* however the 'exists' handler invocations interleave.
C3_OneRecordPerMessageId ==
  \A x \in MessageIds : Cardinality(RecordsOf(store, x)) <= 1

\* Two handler invocations are pending at once, one inside its batch and
\* past the duplicate check for an id, the other waiting for the lock.
C3_Witness ==
  \E h1, h2 \in Handlers :
    /\ hnd[h1].pc = "createMemory"
    /\ hnd[h2].pc = "getMailboxLock"
    /\ Len(mailbox) >= 2
    /\ mailbox[1].messageId = mailbox[2].messageId

\* The classifier produced a well-formed verdict: an object whose important
\* is a boolean and whose summary and reason are strings.
OutcomeValid(o) ==
  /\ o.kind = "object"
  /\ o.response.important.type = "boolean"
  /\ o.response.summary.type = "string"
  /\ o.response.reason_for_importance.type = "string"

OutcomeImportant(o) == OutcomeValid(o) /\ o.response.important.val = "true"

\* C4: every admitted message has a record in the store once its handler run
\* is over, and whenever the notification handler is called for it.
C4_RecordBeforeNotifier ==
  \A h \in Handlers :
    (Admitted(h) /\ (Settled(h) \/ hnd[h].pc = "sendNotification"))
      => HasRecord(store, CurrentId(h))

\* C5: for an admitted message the notification handler is called exactly
\* when the classifier produced a well-formed verdict with important = true.
C5_NotifierIffImportant ==
  \A h \in Handlers :
    /\ (Count(hnd[h].calls, "sendNotification") > 0)
         => (hnd[h].modelOutcome # None /\ OutcomeImportant(hnd[h].modelOutcome[1]))
    /\ (Settled(h) /\ Admitted(h) /\ OutcomeImportant(hnd[h].modelOutcome[1]))
         => Count(hnd[h].calls, "sendNotification") = 1

\* A run whose verdict was important has called the notification handler,
\* after an earlier verdict with important = false left its record behind.
C5_Witness ==
  \E h \in Handlers :
    /\ Settled(h) /\ Admitted(h)
    /\ Count(hnd[h].calls, "sendNotification") = 1
    /\ \E k \in 1..Len(store) :
         /\ store[k].analysisResult.error = None
         /\ ~store[k].analysisResult.important

\* The record of the run of h is in the store as the run wrote it: no other
\* record carries its messageId, and it is there when createMemory resolved.
StoredAsWritten(h) ==
  /\ \A k \in RecordsOf(store, CurrentId(h)) : store[k] = hnd[h].memoryToCreate[1]
  /\ hnd[h].created => Cardinality(RecordsOf(store, CurrentId(h))) = 1

\* C6: when the classifier throws, returns nothing or returns a malformed
\* verdict, the handler makes exactly one createMemory call, with
\* important = false, an empty summary, the error marker and notified =
\* false, and makes no notification handler call.
C6_FailureVerdict ==
  \A h \in Handlers :
    (Settled(h) /\ Admitted(h) /\ ~OutcomeValid(hnd[h].modelOutcome[1])) =>
      /\ Count(hnd[h].calls, "createMemory") = 1
      /\ Count(hnd[h].calls, "sendNotification") = 0
      /\ hnd[h].memoryToCreate[1].originalEmailMessageId = CurrentId(h)
      /\ hnd[h].memoryToCreate[1].notifiedViaTelegram = FALSE
      /\ hnd[h].memoryToCreate[1].analysisResult =
           [ important |-> FALSE, summary |-> "",
             reason_for_importance |-> "LLM processing failed",
             error |-> Some("LLM_PROCESSING_FAILED") ]
      /\ StoredAsWritten(h)

C6_Witness ==
  \E h \in Handlers :
    /\ Settled(h) /\ Admitted(h) /\ hnd[h].created
    /\ hnd[h].modelOutcome[1].kind = "object"
    /\ ~OutcomeValid(hnd[h].modelOutcome[1])

\* C7: once the notification handler has thrown for a messageId whose record
\* is in the store, the records of that id stay as they are, and no further
\* classifier or notification handler call is made for that id.
C7_NotifierFailureIsFinal ==
  [][ \A x \in notifyFailed :
        HasRecord(store, x) =>
          /\ RecordsOf(store', x) = RecordsOf(store, x)
          /\ \A k \in RecordsOf(store, x) : store'[k] = store[k]
          /\ notifyCount'[x] = notifyCount[x]
          /\ \A h \in Handlers :
               (hnd'[h].pc = "useModel" /\ hnd[h].pc # "useModel")
                 => hnd'[h].emailDetails[1].messageId # x ]_vars

\* The notifier failed for an id, its record is stored, and a later delivery
\* of the id was skipped as a duplicate.
C7_Witness ==
  \E h \in Handlers :
    /\ Settled(h) /\ hnd[h].dupAtStart /\ hnd[h].result = "true"
    /\ CurrentId(h) \in notifyFailed
    /\ HasRecord(store, CurrentId(h))

\* C8: for a message not in the store whose classifier output is a
\* well-formed verdict with important = true, the handler makes exactly one
\* createMemory call, with notified = true and the classifier's verdict, and
\* exactly one notification handler call, with the verdict's summary and the
\* sender of the message.
C8_ImportantMessage ==
  \A h \in Handlers :
    (Settled(h) /\ Admitted(h) /\ OutcomeImportant(hnd[h].modelOutcome[1])) =>
      LET r == hnd[h].modelOutcome[1].response
          m == hnd[h].memoryToCreate[1]
      IN /\ Count(hnd[h].calls, "createMemory") = 1
         /\ m.originalEmailMessageId = hnd[h].msgData[1].messageId
         /\ m.senderEmailAddress = hnd[h].msgData[1].from
         /\ m.notifiedViaTelegram = TRUE
         /\ m.analysisResult =
              [ important |-> TRUE, summary |-> r.summary.val,
                reason_for_importance |-> r.reason_for_importance.val,
                error |-> None ]
         /\ StoredAsWritten(h)
         /\ Count(hnd[h].calls, "sendNotification") = 1
         /\ hnd[h].notifyArgs =
              Some([sender |-> hnd[h].msgData[1].from, summary |-> r.summary.val])

C8_Witness ==
  \E h \in Handlers :
    /\ Settled(h) /\ Admitted(h) /\ hnd[h].created
    /\ OutcomeImportant(hnd[h].modelOutcome[1])
    /\ hnd[h].notifyArgs =
         Some([sender |-> "alice@mail", summary |-> "Meeting time changed to 3pm"])

\* C9: a batch ends only after its last identifier: no failure for one
\* message keeps the identifiers after it from being fetched.
C9_BatchVisitsEveryIdentifier ==
  [][ \A h \in Handlers :
        (hnd[h].pc \notin {"idle", "getMailboxLock", "search"} /\ hnd'[h].pc = "idle")
          => hnd[h].i = Len(hnd[h].uidsToFetch) ]_vars

\* C10: when getMemories throws for a message the handler run ends there,
\* with no classifier call, no createMemory call and no notification; the
\* loop goes on with the next identifier; and a later delivery of the
\* message while the store answers is classified as a new message.
C10_GateFailureSkips ==
  [][ \A h \in Handlers :
        /\ (hnd[h].pc = "getMemories" /\ hnd'[h].threw = "getMemories") =>
             /\ hnd'[h].pc = "analyzeHandler"
             /\ hnd'[h].result = "throw"
             /\ hnd'[h].calls = hnd[h].calls
             /\ store' = store
             /\ notifyCount' = notifyCount
        /\ (Settled(h) /\ hnd[h].threw = "getMemories" /\ hnd'[h] # hnd[h]) =>
             /\ store' = store
             /\ notifyCount' = notifyCount
             /\ IF hnd[h].i < Len(hnd[h].uidsToFetch)
                THEN /\ hnd'[h].pc = "fetchOne"
                     /\ hnd'[h].i = hnd[h].i + 1
                     /\ hnd'[h].uidsToFetch = hnd[h].uidsToFetch
                ELSE hnd'[h].pc = "idle"
        /\ ( /\ hnd[h].pc = "getMemories"
             /\ CurrentId(h) \in gateFailed
             /\ ~HasRecord(store, CurrentId(h))
             /\ hnd'[h] # hnd[h]
             /\ hnd'[h].threw # "getMemories" ) =>
             hnd'[h].pc = "useModel" ]_vars

\* A message skipped on a failed query is delivered again and classified,
\* in a batch that went on after the skip.
C10_Witness ==
  \E h \in Handlers :
    /\ hnd[h].pc = "useModel"
    /\ CurrentId(h) \in gateFailed
    /\ hnd[h].i = 2

\* The awaits of a handler invocation between getMailboxLock and release.
InBatch(h) == hnd[h].pc \notin {"idle", "getMailboxLock"}

\* C11: the handler invocation that runs a batch holds the mailbox lock from
\* getMailboxLock to the end of the batch, and the step that ends the batch
\* (the loop is done, search found nothing, or search, fetch, download or
\* processing threw) leaves the lock free.
C11_LockHeldThenReleased ==
  [][ \A h \in Handlers :
        /\ InBatch(h) => lock = h
        /\ (hnd'[h].pc \notin {"idle", "getMailboxLock"}) => lock' = h
        /\ (InBatch(h) /\ hnd'[h].pc = "idle") => lock' = 0 ]_vars

\* The first invocation has ended its batch on a throw of fetchOne or
\* download, or on a fetch that found no message (nothing was queried or
\* stored for the message in the mailbox), and the second one holds the lock.
C11_Witness ==
  /\ hnd[1].pc = "idle"
  /\ hnd[2].pc = "fetchOne"
  /\ lock = 2
  /\ Len(mailbox) = MaxMsgs
  /\ store = <<>>
  /\ gateFailed = {}

\* C12: in a batch the identifiers are taken one after the other in the
\* order of the search result: the fetch for position i + 1 is issued only
\* by the step that follows the end of the processing of position i (the
\* ANALYZE_EMAIL handler has settled), or the search for position 1, and the
\* list is not changed in between.
C12_SequentialInSearchOrder ==
  [][ \A h \in Handlers :
        /\ (hnd[h].pc = "search" /\ hnd'[h].pc \notin {"idle", "search"}) =>
             /\ hnd'[h].uidsToFetch = [k \in 1..Len(mailbox) |-> mailbox[k].uid]
             /\ hnd'[h].i = 1
             /\ hnd'[h].pc = "fetchOne"
        /\ (InBatch(h) /\ hnd[h].pc # "search" /\ hnd'[h].pc # "idle"
              /\ hnd'[h] # hnd[h]) =>
             /\ hnd'[h].uidsToFetch = hnd[h].uidsToFetch
             /\ IF hnd[h].pc = "analyzeHandler"
                THEN hnd'[h].i = hnd[h].i + 1 /\ hnd'[h].pc = "fetchOne"
                ELSE hnd'[h].i = hnd[h].i /\ hnd'[h].pc # "fetchOne" ]_vars

C12_Witness ==
  \E h \in Handlers :
    /\ hnd[h].pc = "fetchOne"
    /\ hnd[h].i = 2
    /\ hnd[h].uidsToFetch = <<1, 2>>

\* C13: an 'exists' event starts handler work only when its count is
\* greater than the count before it (0 when there is none before): an event
\* with a count that is not greater takes no lock and starts no search, and
\* no handler invocation starts on any other step.
C13_BatchOnlyOnIncrease ==
  [][ LET prev == IF seenCount = None THEN 0 ELSE seenCount[1]
          event == mailbox' = mailbox /\ seenCount' # seenCount
          starting == {h \in Handlers : hnd[h].pc = "idle" /\ hnd'[h].pc # "idle"}
      IN /\ (event /\ seenCount'[1] <= prev) => (hnd' = hnd /\ lock' = lock)
         /\ (event /\ seenCount'[1] > prev) =>
              (starting # {} /\ \A h \in starting : hnd'[h].pc = "getMailboxLock")
         /\ (starting # {}) => (event /\ seenCount'[1] > prev) ]_vars

\* After a message was processed, an event has reported a count of 0 that
\* is lower than the count before it, and no handler invocation is pending.
C13_Witness ==
  /\ mailbox = <<>>
  /\ seenCount = Some(0)
  /\ knownUids = {}
  /\ store # <<>>
  /\ \A h \in Handlers : hnd[h].pc = "idle"

\* C14: the identifiers a batch fetches are those of messages that arrived
\* after the wake-up before the one that started the batch: no identifier
\* of a message that wake-up already found in the mailbox is fetched.
C14_OnlyNewMessagesForwarded ==
  [][ \A h \in Handlers :
        (hnd[h].pc = "search" /\ hnd'[h].pc = "fetchOne") =>
          \A k \in 1..Len(hnd'[h].uidsToFetch) :
            hnd'[h].uidsToFetch[k] \notin hnd[h].knownBefore ]_vars

\* A monitorEmails call or a re-idle callback is at an await.
Active(r) == runs[r].pc # "done"

\* C15: while no shutdown signal has come, the running session always has a
\* connect, mailboxOpen, idle or teardown call in progress or a timer
\* pending: it never comes to rest.
C15_NeverAtRest ==
  (plugin.state = "running" /\ shut = <<>>) =>
    ((\E r \in 1..Len(runs) : Active(r)) \/ timers # <<>>)

\* C16: after a shutdown signal no timer is set, no timer callback runs
\* (monitorEmails or re-idle), and no connect or idle call is made.
C16_NoReconnectAfterSignal ==
  [][ shut # <<>> =>
        /\ Len(runs') = Len(runs)
        /\ Len(timers') <= Len(timers)
        /\ \A r \in 1..Len(runs) :
             runs'[r].pc \in {"connect", "idle"} => runs'[r].pc = runs[r].pc ]_vars

\* C17: gracefulShutdown calls logout when the client is usable and close()
\* when it is not; when the logout throws it calls close(); when it is over
\* the client is not usable.
C17_Teardown ==
  [][ \A j \in 1..Len(shut') :
        /\ (j > Len(shut)) =>
             IF usable
             THEN shut'[j].pc = "logout" /\ shut'[j].calls = <<"logout">>
             ELSE shut'[j].pc = "done" /\ shut'[j].calls = <<"close">> /\ ~usable'
        /\ (j <= Len(shut) /\ shut[j].pc = "logout" /\ shut'[j].pc = "done") =>
             /\ shut'[j].calls = IF shut'[j].threw THEN <<"logout", "close">>
                                                  ELSE <<"logout">>
             /\ ~usable' ]_vars

\* The signal came in a batch, the logout threw and the transport was closed.
C17_Witness ==
  /\ shut # <<>>
  /\ shut[1].pc = "done"
  /\ shut[1].threw
  /\ ~usable
  /\ lock # 0

\* C18: a shutdown signal that arrives while a batch holds the mailbox lock
\* does not call logout or close() in its step: the teardown waits for the
\* batch.
C18_BatchCompletesBeforeTeardown ==
  [][ (Len(shut') > Len(shut) /\ lock # 0) => shut'[Len(shut')].calls = <<>> ]_vars

\* C19: when idle resolves, a re-entry into idle is scheduled with a delay
\* shorter than the reconnect delay.
C19_ReIdleAfterResolve ==
  [][ \A r \in 1..Len(runs) :
        (runs[r].pc = "idle" /\ runs'[r].idle = "resolved") =>
          \E k \in 1..Len(timers') :
            /\ k > Len(timers)
            /\ timers'[k].fn = "reIdle"
            /\ timers'[k].delay < ReconnectDelay ]_vars

\* A setting is undefined or empty.
Absent(v) == v = None \/ v = Some("")

\* C20: with host, user or pass absent, init logs an error and nothing of
\* the session exists: no client, no monitorEmails call, no listener, no
\* signal handler, no timer.
C20_NoCredentialsNoSession ==
  (Absent(config.host) \/ Absent(config.user) \/ Absent(config.pass)) =>
    /\ ~plugin.client
    /\ ~plugin.signalHandlers
    /\ runs = <<>>
    /\ timers = <<>>
    /\ shut = <<>>
    /\ listeners = 0
    /\ ~usable
    /\ \A h \in Handlers : hnd[h].pc = "idle"
    /\ plugin.state \in {"loaded", "refused"}
    /\ plugin.state = "refused" => plugin.errorLogged

\* init has returned on a missing password, host and user being set.
C20_Witness ==
  /\ plugin.state = "refused"
  /\ config.host = Some("set")
  /\ config.user = Some("set")
  /\ config.pass = None

\* The messageId the k-th normalization resolved.
ResolvedId(k) == normalized[k].details.messageId

\* C21: two fetches of the same server message resolve the same messageId.
C21_MessageIdStable ==
  \A j, k \in 1..Len(normalized) :
    normalized[j].msg = normalized[k].msg => ResolvedId(j) = ResolvedId(k)

\* str has a character that is not a blank.
NotBlank(str) == \E k \in 1..Len(str) : str[k] \notin Whitespace

\* str from its first to its last character that is not a blank.
Stripped(str) ==
  LET solid == {k \in 1..Len(str) : str[k] \notin Whitespace} IN
  SubSeq(str, CHOOSE x \in solid : \A y \in solid : x <= y,
              CHOOSE x \in solid : \A y \in solid : x >= y)

\* The envelope of the message carries a Message-ID that is not blank.
HasEnvelopeId(msg) ==
  msg.envelope.messageId # None /\ NotBlank(msg.envelope.messageId[1])

\* The raw headers of the message are a Buffer that yields a Message-ID.
HasHeaderId(msg) ==
  /\ msg.headers # None
  /\ msg.headers[1].kind = "buffer"
  /\ HeaderMessageId(msg.headers[1].lines) # None

\* C22: the messageId is the trimmed envelope id when the envelope has one
\* that is not blank, else the id of the Message-ID line of the raw headers,
\* else the fallback id; it is never empty and never only blanks.
C22_ResolutionOrder ==
  \A k \in 1..Len(normalized) :
    LET msg == normalized[k].msg IN
    /\ NotBlank(ResolvedId(k))
    /\ IF HasEnvelopeId(msg)
       THEN ResolvedId(k) = Stripped(msg.envelope.messageId[1])
       ELSE IF HasHeaderId(msg)
            THEN ResolvedId(k) = Stripped(HeaderMessageId(msg.headers[1].lines)[1])
            ELSE Head(ResolvedId(k)) = "pingpal-no-id-"

\* An id was taken from the raw headers under a blank envelope id, and
\* another one from an envelope id with blanks around it.
C22_Witness ==
  \E j, k \in 1..Len(normalized) :
    /\ normalized[j].msg.envelope.messageId = Some(<<" ", "\t">>)
    /\ ResolvedId(j) = <<"<hdr@mail>">>
    /\ normalized[k].msg.envelope.messageId = Some(<<" ", "<env@mail>", "\t">>)
    /\ ResolvedId(k) = <<"<env@mail>">>

\* C23: two messages with different UIDs and no Message-ID to extract get
\* different fallback ids.
C23_FallbackIdsDiffer ==
  \A j, k \in 1..Len(normalized) :
    LET a == normalized[j].msg
        b == normalized[k].msg
    IN (a.uid # b.uid /\ ~HasEnvelopeId(a) /\ ~HasHeaderId(a)
                      /\ ~HasEnvelopeId(b) /\ ~HasHeaderId(b))
         => ResolvedId(j) # ResolvedId(k)

\* Two messages of the same date with UIDs 5 and 56 got fallback ids.
C23_Witness ==
  /\ Len(normalized) = 2
  /\ normalized[1].msg.uid # normalized[2].msg.uid
  /\ normalized[1].msg.envelope.date = normalized[2].msg.envelope.date
  /\ Head(ResolvedId(1)) = "pingpal-no-id-"
  /\ Head(ResolvedId(2)) = "pingpal-no-id-"

\* The parts of a body structure that are not multiparts, in document order.
RECURSIVE LeavesOf(_)
RECURSIVE LeavesOfAll(_)
LeavesOf(node) ==
  IF node.childNodes = None THEN <<node>> ELSE LeavesOfAll(node.childNodes[1])

LeavesOfAll(nodes) ==
  IF nodes = <<>> THEN <<>> ELSE LeavesOf(Head(nodes)) \o LeavesOfAll(Tail(nodes))

\* The first part of the given kind in the part tree, if any.
FirstLeaf(bodyStructure, Kind(_)) ==
  LET leaves == LeavesOf(bodyStructure)
      hits == {k \in 1..Len(leaves) : Kind(leaves[k].type)}
  IN IF hits = {} THEN None
     ELSE Some(leaves[CHOOSE x \in hits : \A y \in hits : x <= y])

IsPlain(type) == type = [major |-> "text", minor |-> "plain"]
IsHtml(type) == type = [major |-> "text", minor |-> "html"]
IsText(type) == type.major = "text"

\* C24: when the part tree holds a text/plain and a text/html part, bodyText
\* is the content of the text/plain part as it is.
C24_PlainOverHtml ==
  \A k \in 1..Len(normalized) :
    LET tree == normalized[k].msg.bodyStructure IN
    (FirstLeaf(tree, IsPlain) # None /\ FirstLeaf(tree, IsHtml) # None)
      => normalized[k].details.bodyText = FirstLeaf(tree, IsPlain)[1].content

\* C25: bodyText is the content of the text/plain part of the part tree,
\* else the text of its text/html part, else the content of its first
\* text/* part, else the empty string; so it is empty only when the tree
\* has no text part.
C25_BodyFromPartTree ==
  \A k \in 1..Len(normalized) :
    LET tree == normalized[k].msg.bodyStructure
        body == normalized[k].details.bodyText
    IN /\ body =
            IF FirstLeaf(tree, IsPlain) # None
            THEN FirstLeaf(tree, IsPlain)[1].content
            ELSE IF FirstLeaf(tree, IsHtml) # None
                 THEN SelectSeq(FirstLeaf(tree, IsHtml)[1].content,
                                LAMBDA x : x \notin HtmlTags)
                 ELSE IF FirstLeaf(tree, IsText) # None
                      THEN FirstLeaf(tree, IsText)[1].content
                      ELSE <<>>
       /\ (body = <<>>) => FirstLeaf(tree, IsText) = None

\* A part of an address is there: defined and not empty.
Present(x) == x # None /\ x # Some("")

\* What the claim gives for an address.
Resolved(addr, marker) ==
  IF Present(addr.mailbox) /\ Present(addr.host)
  THEN <<addr.mailbox[1], "@", addr.host[1]>>
  ELSE IF Present(addr.name) THEN <<addr.name[1]>> ELSE <<marker>>

\* C26: from (of the first sender) and every element of to are mailbox@host
\* when both are there, else the display name, else the unknown marker;
\* from is never missing, to is a sequence with one element per recipient
\* (empty without recipients), subject is the subject or "No Subject".
C26_AddressesAndSubject ==
  \A k \in 1..Len(normalized) :
    LET env == normalized[k].msg.envelope
        d == normalized[k].details
    IN /\ d.from # <<>>
       /\ d.from = IF env.from # None /\ env.from[1] # <<>>
                   THEN Resolved(env.from[1][1], "Unknown Sender")
                   ELSE <<"Unknown Sender">>
       /\ Len(d.to) = IF env.to = None THEN 0 ELSE Len(env.to[1])
       /\ \A j \in 1..Len(d.to) : d.to[j] = Resolved(env.to[1][j], "Unknown Recipient")
       /\ d.subject = IF Present(env.subject) THEN env.subject[1] ELSE "No Subject"

\* A message whose sender has a display name but no host, with a recipient
\* that has nothing, and no subject.
C26_Witness ==
  \E k \in 1..Len(normalized) :
    /\ normalized[k].details.from = <<"Alice">>
    /\ Len(normalized[k].details.to) = 3
    /\ normalized[k].details.to[2] = <<"Unknown Recipient">>
    /\ normalized[k].details.subject = "No Subject"

\* C27: every step leaves the stored records as they are or adds exactly one
\* record after them; no stored record is changed or removed.
C27_StoreAppendOnly ==
  [][\/ store' = store
     \/ /\ Len(store') = Len(store) + 1
        /\ SubSeq(store', 1, Len(store)) = store]_vars

\* A second record was added after a first one, which is as it was written.
C27_Witness ==
  /\ Len(store) = 2
  /\ \E h \in Handlers : hnd[h].pc # "idle" /\ hnd[h].memoryToCreate = <<store[2]>>
  /\ store[1] # store[2]

\* C28: when the session waits and is at rest (no batch runs, the client
\* knows the message count of the mailbox), every message of the mailbox has
\* been handed to a batch: the messages that were there when the session
\* began to wait are processed without a further arrival.
C28_UnseenProcessedOnWaiting ==
  (/\ selected
   /\ \E r \in 1..Len(runs) : runs[r].pc = "idle"
   /\ seenCount = Some(Len(mailbox))
   /\ \A h \in Handlers : hnd[h].pc = "idle")
    => \A k \in 1..Len(mailbox) : mailbox[k].uid \in knownUids

\* The teardown of a run is over: logout, or close when the client was not
\* usable, or logout and close when logout failed.
TornDown(run) ==
  /\ run.pc = "done"
  /\ run.calls \in {<<"logout">>, <<"logout", "close">>, <<"close">>}

\* C29: idle is called only on a connection on which connect and mailboxOpen
\* have succeeded; when connect or mailboxOpen fails the run goes to its
\* teardown (logout, or close when logout fails or the client is not
\* usable), sets the timer of the reconnect and never calls idle.
C29_IdleOnlyWhenSelected ==
  [][\A r \in 1..Len(runs') :
       LET was == IF r <= Len(runs) THEN runs[r].pc ELSE "none"
           run == runs'[r]
       IN /\ (run.pc = "idle" /\ was # "idle") =>
               /\ usable' /\ selected'
               /\ run.calls = <<>>
               /\ run.fn = "monitorEmails" => was = "mailboxOpen"
          /\ (was = "connect" /\ run.pc # "connect") =>
               \/ run.pc = "mailboxOpen" /\ usable'
               \/ run.pc = "logout" /\ run.calls = <<"logout">>
               \/ /\ TornDown(run) /\ run.calls = <<"close">>
                  /\ timers' = Append(timers, [fn |-> "monitorEmails", delay |-> 60000])
          /\ (was = "mailboxOpen" /\ run.pc # "mailboxOpen") =>
               \/ run.pc = "idle"
               \/ run.pc = "logout" /\ run.calls = <<"logout">>
               \/ /\ TornDown(run) /\ run.calls = <<"close">>
                  /\ timers' = Append(timers, [fn |-> "monitorEmails", delay |-> 60000])
          /\ (was = "logout" /\ run.pc # "logout") =>
               /\ TornDown(run) /\ Head(run.calls) = "logout"
               /\ ~usable'
               /\ timers' = Append(timers, [fn |-> "monitorEmails", delay |-> 60000])]_vars

\* A mailboxOpen failed on a usable client, the logout failed too and the
\* client was closed; the reconnect is set, and the call of it reached
\* idle after a connect and a mailboxOpen of its own.
C29_Witness ==
  /\ Len(runs) >= 2
  /\ runs[1].calls = <<"logout", "close">>
  /\ runs[1].pc = "done"
  /\ runs[2].pc = "idle"
  /\ runs[2].fn = "monitorEmails"
  /\ selected

\* C30: a timer is set with 10 s when idle fails in monitorEmails on a
\* client that is still usable, with 30 s when idle fails on a lost
\* connection or in the restart of idle, with 60 s when connect or
\* mailboxOpen failed; 10 s < 30 s < 60 s, whatever the number of failures
\* before.
C30_FixedDelays ==
  [][Len(timers') > Len(timers) =>
       \E r \in 1..Len(runs) :
         LET set == timers'[Len(timers')] IN
         /\ runs'[r] # runs[r]
         /\ IF runs[r].pc = "idle"
            THEN IF runs[r].fn = "monitorEmails" /\ usable
                 THEN set = [fn |-> "reIdle", delay |-> 10000]
                 ELSE set = [fn |-> "monitorEmails", delay |-> 30000]
            ELSE /\ runs[r].pc \in {"connect", "mailboxOpen", "logout"}
                 /\ set = [fn |-> "monitorEmails", delay |-> 60000]
         /\ ReIdleDelay < ReconnectDelay
         /\ ReconnectDelay < RetryDelay]_vars

\* Three calls of monitorEmails failed one after the other, and the timer
\* set by the third is the 60 s timer.
C30_Witness ==
  /\ Len(runs) = 3
  /\ \A r \in 1..3 : runs[r].fn = "monitorEmails" /\ TornDown(runs[r])
  /\ timers = <<[fn |-> "monitorEmails", delay |-> 60000]>>

\* The invocation h is fetching or processing a message.
AtMessage(h) == hnd[h].pc \notin {"idle", "getMailboxLock", "search"}

\* C31: at most one invocation is in its batch at any time, and it is the
\* one that holds the mailbox lock; an invocation started by a further
\* 'exists' event waits for the lock, so no two messages are fetched or
\* processed at the same time and no store query or record write of one
\* message falls between those of another.
C31_BatchesExclusive ==
  \A g, h \in Handlers :
    /\ InBatch(h) => lock = h
    /\ (InBatch(g) /\ InBatch(h)) => g = h
    /\ (AtMessage(g) /\ AtMessage(h)) => g = h

\* A second 'exists' event fired while the first batch was at the store
\* query of a message: its invocation waits for the lock.
C31_Witness ==
  /\ hnd[1].pc = "getMemories"
  /\ lock = 1
  /\ hnd[2].pc = "getMailboxLock"
  /\ Len(mailbox) = 2

\* C32: at most one 'exists' listener is registered on the client, so one
\* report of the server starts at most one batch, however often
\* monitorEmails has been called.
C32_AtMostOneListener == listeners <= 1

\* The calls of monitorEmails or of the re-idle callback in progress.
InProgress == {r \in 1..Len(runs) : Active(r)}

\* C34: at most one call of monitorEmails (or of the re-idle callback) is in
\* progress or set by a pending timer, and a call sets at most one timer,
\* in the step in which it ends.
C34_OneMonitoringLoop ==
  [][/\ Cardinality(InProgress) + Len(timers) <= 1
     /\ Cardinality({r \in 1..Len(runs') : runs'[r].pc # "done"}) + Len(timers') <= 1
     /\ Len(timers') > Len(timers) =>
          /\ Len(timers') = Len(timers) + 1
          /\ \E r \in InProgress : runs'[r].pc = "done"]_vars

\* The third call of monitorEmails is in progress after an idle that failed
\* in the first and a connect or mailboxOpen that failed in the second; no
\* timer is pending.
C34_Witness ==
  /\ Len(runs) = 3
  /\ runs[1].idle = "rejected"
  /\ TornDown(runs[2])
  /\ runs[3].fn = "monitorEmails"
  /\ runs[3].pc \in {"connect", "mailboxOpen", "idle"}
  /\ timers = <<>>

\* C33: the message whose envelope, headers and part structure fetchOne
\* hands to the handler for an identifier of the search result is the
\* message with that UID.
C33_FetchedIsTheSearched ==
  [][\A h \in Handlers :
       (hnd[h].pc = "fetchOne" /\ hnd'[h].msgData # None) =>
          hnd'[h].msgData[1].uid = hnd[h].uidsToFetch[hnd[h].i]]_vars

\* The handler run of invocation h called the notification handler.
NotifierInvoked(h) == Count(hnd[h].calls, "sendNotification") > 0

\* C35: a record is stored as notified only by a handler run that calls
\* the notification handler; a run that does not call it (classification
\* failed, not important, or no notification action in the runtime) writes
\* notified = false.
C35_NotifiedOnlyIfInvoked ==
  \A h \in Handlers :
    (Settled(h) /\ hnd[h].created) =>
      (hnd[h].memoryToCreate[1].notifiedViaTelegram => NotifierInvoked(h))

\* The details the handler was called with are missing or have no messageId.
InvalidInput(h) ==
  hnd[h].emailDetails = None \/ hnd[h].emailDetails[1].messageId = ""

\* The classification of the run failed: useModel threw, or resolved to an
\* empty or ill-typed response.
ClassificationFailed(h) ==
  hnd[h].modelOutcome # None /\ ~OutcomeValid(hnd[h].modelOutcome[1])

\* C36: called with missing details or an empty messageId the handler
\* returns false and has made no runtime call (no store query, classifier
\* call, record write or notifier call); else it returns false exactly when
\* the classification failed, and true when the messageId was a duplicate
\* or the classification succeeded, whether or not the record write or the
\* notifier failed.
C36_HandlerReturn ==
  \A h \in Handlers :
    Settled(h) =>
      IF InvalidInput(h)
      THEN hnd[h].result = "false" /\ hnd[h].calls = <<>>
      ELSE /\ (hnd[h].result = "false") <=> ClassificationFailed(h)
           /\ (hnd[h].dupAtStart /\ hnd[h].threw = "none") => hnd[h].result = "true"
           /\ (hnd[h].modelOutcome # None /\ ~ClassificationFailed(h)) =>
                hnd[h].result = "true"
           /\ (hnd[h].result = "true") =>
                (hnd[h].dupAtStart \/ hnd[h].modelOutcome # None)

\* A call with an empty messageId has returned false without a runtime
\* call, after a call whose record write had succeeded.
C36_Witness ==
  /\ Settled(1)
  /\ hnd[1].emailDetails # None
  /\ hnd[1].emailDetails[1].messageId = ""
  /\ hnd[1].result = "false"
  /\ hnd[1].calls = <<>>
  /\ store # <<>>
====
